---- MODULE Spec2Model ----
(***************************************************************************)
(* A model of the SINTA metrics scraper and its data manager.              *)
(*                                                                         *)
(*   parse_metrics_page   src/scraping_module.py, src/new_scraping.py      *)
(*   perform_scraping     src/scraping_module.py (the batch loop)          *)
(*   the top-level loop   src/new_scraping.py                              *)
(*   SintaDataManager     src/data_manager.py                              *)
(*                                                                         *)
(* Text is a sequence of pieces (words, a single blank, punctuation); the  *)
(* text a piece sequence stands for is the concatenation of its pieces.    *)
(* A substring test is a test for a contiguous run of pieces.              *)
(***************************************************************************)
EXTENDS Integers, Sequences, FiniteSets, TLC

VARIABLES
    has_table,        \* whether soup.find('table', class_='table') finds a table
    rows,             \* table.find_all('tr'): the rows of the document
    idx,              \* number of rows the for loop has completed
    sections,         \* the dict being built
    current_section,  \* the local current_section (None or a caption)
    pstate,           \* "loop", "returned" or "raised"
    presult,          \* what the call produced: "pending", "None", "sections",
                      \* or the name of the exception that left the function
    heap,             \* the dict objects alive, by identity
    db,               \* st.session_state["SINTA_DB"]: the identity of the store
    held,             \* the mapping the caller holds (a backup), or NoRef
    call,             \* the last data-manager call: its name, arguments, outcome
    program,          \* the batch loop that runs: "perform_scraping",
                      \* "new_scraping", or "none"
    df,               \* the rows of the input CSV, in file order
    processed_count,  \* number of rows of df the for loop has completed
    results,          \* the results list
    http,             \* the requests made so far and what each one got
    bstate,           \* "loop", "done" or "raised"
    output            \* the JSON file: whether written, and the list written

pvars == <<has_table, rows, idx, sections, current_section, pstate, presult>>

svars == <<heap, db, held, call>>

bvars == <<program, df, processed_count, results, http, bstate, output>>

vars == <<has_table, rows, idx, sections, current_section, pstate, presult,
          heap, db, held, call,
          program, df, processed_count, results, http, bstate, output>>

----------------------------------------------------------------------------
(* Bounds *)

MaxRows == 3
MaxInst == 3

----------------------------------------------------------------------------
(* Text *)

SP == " "
None == [none |-> TRUE]

\* Python's `pat in text`
Contains(text, pat) ==
    \E i \in 0..(Len(text) - Len(pat)) : SubSeq(text, i + 1, i + Len(pat)) = pat

RECURSIVE LStrip(_)
LStrip(text) ==
    IF text # <<>> /\ Head(text) = SP THEN LStrip(Tail(text)) ELSE text

RECURSIVE RStrip(_)
RStrip(text) ==
    IF text # <<>> /\ text[Len(text)] = SP
    THEN RStrip(SubSeq(text, 1, Len(text) - 1))
    ELSE text

\* get_text(strip=True) of a cell holding one text node
GetTextStrip(text) == RStrip(LStrip(text))

\* str.replace(',', '.')
ReplaceComma(text) == [i \in 1..Len(text) |-> IF text[i] = "," THEN "." ELSE text[i]]

ScoreIn == <<"Score", SP, "in">>
Total == <<"Total">>
TotalScore == <<"Total", SP, "Score">>
TotalAllScore == <<"TOTAL", SP, "ALL", SP, "SCORE">>
SubtotalSuffix == <<SP, "(subtotal)">>

\* the markers the code looks for inside a style attribute
BorderLeft == "border-left: 3px solid"
Accent == "#FF6B1A"
Italic == "font-style: italic"

----------------------------------------------------------------------------
(* Documents: a row is the sequence of its th/td cells in document order *)

Cell(tag, colspan, style, text) ==
    [tag |-> tag, colspan |-> colspan, style |-> style, text |-> text]

CapA == <<"Publication", SP, "Score", SP, "in", SP, "2026">>
CapB == <<"Research", SP, "Score", SP, "in", SP, "2026">>

\* section headers (the first one padded with blanks, as markup usually is)
HdrA == << Cell("th", TRUE, {BorderLeft}, <<SP>> \o CapA \o <<SP>>) >>
HdrB == << Cell("th", TRUE, {BorderLeft}, CapB) >>
\* a header whose caption is another caption followed by " (subtotal)"
HdrASub == << Cell("th", TRUE, {BorderLeft}, CapA \o SubtotalSuffix) >>
\* a multi-column left-border heading without "Score in", in a row that has
\* six cells and a left-border first cell
HdrOther ==
    << Cell("th", TRUE, {BorderLeft}, <<"No">>),
       Cell("td", FALSE, {}, <<"AX1">>),
       Cell("td", FALSE, {}, <<"Other">>),
       Cell("td", FALSE, {}, <<"1">>),
       Cell("td", FALSE, {}, <<"4", ",", "5">>),
       Cell("td", FALSE, {}, <<"4", ",", "5">>) >>
\* the subtotal row of a section: its caption cell is a multi-column
\* left-border heading in italics whose text contains "Total"
SubRow ==
    << Cell("th", TRUE, {BorderLeft, Italic},
            <<"Total", SP, "Score", SP, "Publication">>),
       Cell("th", FALSE, {Italic}, <<SP, "12", ",", "5">>) >>
\* an italic heading without "Total Score", in a row that has six cells and
\* a left-border first cell
ItalicOther ==
    << Cell("td", FALSE, {BorderLeft}, <<"9">>),
       Cell("th", FALSE, {Italic}, <<"AX2">>),
       Cell("td", FALSE, {}, <<"Note">>),
       Cell("td", FALSE, {}, <<"1">>),
       Cell("td", FALSE, {}, <<"7", ",", "5">>),
       Cell("td", FALSE, {}, <<"7", ",", "5">>) >>
GrandRow ==
    << Cell("th", TRUE, {Accent}, TotalAllScore),
       Cell("th", FALSE, {Accent}, <<"543", ",", "21">>) >>
\* an accent-coloured heading without "TOTAL ALL SCORE", in a row that has
\* six cells and a left-border first cell
AccentOther ==
    << Cell("td", FALSE, {BorderLeft}, <<"3">>),
       Cell("th", FALSE, {Accent}, <<"AN1">>),
       Cell("td", FALSE, {}, <<"Rank", SP, "1">>),
       Cell("td", FALSE, {}, <<"0", ",", "25">>),
       Cell("td", FALSE, {}, <<"8">>),
       Cell("td", FALSE, {}, <<"2">>) >>
Detail1 ==
    << Cell("td", FALSE, {BorderLeft}, <<"1">>),
       Cell("td", FALSE, {}, <<"AI1">>),
       Cell("td", FALSE, {}, <<"Q1", ",", SP, "int">>),
       Cell("td", FALSE, {}, <<"0", ",", "5">>),
       Cell("td", FALSE, {}, <<SP, "1", ",", "234", SP>>),
       Cell("td", FALSE, {}, <<"0", ",", "617">>) >>
\* seven cells
Detail2 ==
    << Cell("th", FALSE, {BorderLeft}, <<"2">>),
       Cell("td", FALSE, {}, <<"AI2">>),
       Cell("td", FALSE, {}, <<"Q2">>),
       Cell("td", FALSE, {}, <<"40">>),
       Cell("td", FALSE, {}, <<"3">>),
       Cell("td", FALSE, {}, <<"1", ",", "200", ",", "5">>),
       Cell("td", FALSE, {}, <<>>) >>
\* exactly five cells
Detail5 ==
    << Cell("td", FALSE, {BorderLeft}, <<"4">>),
       Cell("td", FALSE, {}, <<"AI3">>),
       Cell("td", FALSE, {}, <<"Q3">>),
       Cell("td", FALSE, {}, <<"30">>),
       Cell("td", FALSE, {}, <<"2", ",", "5">>) >>
\* six cells, no style on the first one
PlainRow ==
    << Cell("th", FALSE, {}, <<"No">>),
       Cell("th", FALSE, {}, <<"Code">>),
       Cell("th", FALSE, {}, <<"Name">>),
       Cell("th", FALSE, {}, <<"Weight">>),
       Cell("th", FALSE, {}, <<"Value">>),
       Cell("th", FALSE, {}, <<"Total">>) >>

RowKinds ==
    { HdrA, HdrB, HdrASub, HdrOther, SubRow, ItalicOther, GrandRow,
      AccentOther, Detail1, Detail2, Detail5, PlainRow }

\* every document of at most MaxRows rows
Documents == UNION { [1..n -> RowKinds] : n \in 0..MaxRows }

----------------------------------------------------------------------------
(* parse_metrics_page *)

Min(S) == CHOOSE x \in S : \A y \in S : x <= y
Max(S) == CHOOSE x \in S : \A y \in S : y <= x

\* row.find('th', ...): the index of the first matching th cell, 0 for None
FindTh(row, Match(_)) ==
    LET hits == { i \in 1..Len(row) : row[i].tag = "th" /\ Match(row[i]) }
    IN  IF hits = {} THEN 0 ELSE Min(hits)

\* row.find_all('th')[-1].get_text(strip=True)
LastThText(row) ==
    GetTextStrip(row[Max({ i \in 1..Len(row) : row[i].tag = "th" })].text)

\* row.find('th', colspan=True, style=lambda x: x and 'border-left: 3px solid' in x)
IsHeaderTh(c) == c.colspan /\ BorderLeft \in c.style
HeaderCell(row) == FindTh(row, IsHeaderTh)
\* row.find('th', style=lambda x: x and '#FF6B1A' in x)
IsAccentTh(c) == Accent \in c.style
TotalAllCell(row) == FindTh(row, IsAccentTh)
\* row.find('th', style=lambda x: x and 'font-style: italic' in x)
IsItalicTh(c) == Italic \in c.style
ItalicCell(row) == FindTh(row, IsItalicTh)

\* a bug: the test asks for "Score in" in the caption as well
HeaderTest_NeedsScoreIn(row) ==
    /\ HeaderCell(row) # 0
    /\ ~Contains(row[HeaderCell(row)].text, Total)
    /\ Contains(GetTextStrip(row[HeaderCell(row)].text), ScoreIn)

\* `if header and 'Total' not in header.get_text():`
HeaderTest(row) ==
    /\ HeaderCell(row) # 0
    /\ ~Contains(row[HeaderCell(row)].text, Total)

\* `if total_all and 'TOTAL ALL SCORE' in total_all.get_text():`
TotalAllTest(row) ==
    /\ TotalAllCell(row) # 0
    /\ Contains(row[TotalAllCell(row)].text, TotalAllScore)

\* `if italic_total:`
ItalicTest(row) == ItalicCell(row) # 0

\* `if len(cols) >= 5 and cols[0].get('style') and 'border-left: 3px solid' in cols[0]['style']:`
DetailTest(row) == Len(row) >= 5 /\ BorderLeft \in row[1].style

\* the if statement of the loop body that a row enters: each of the first
\* three ends in `continue`, so a row enters the first whose test it passes
Branch(row) ==
    IF HeaderTest(row) THEN "header"
    ELSE IF TotalAllTest(row) THEN "total_all"
    ELSE IF ItalicTest(row) THEN "italic"
    ELSE IF DetailTest(row) THEN "detail"
    ELSE "none"

TakesHeaderBranch(row) == Branch(row) = "header"
TakesTotalAllBranch(row) == Branch(row) = "total_all"
TakesItalicBranch(row) == Branch(row) = "italic"
TakesDetailBranch(row) == Branch(row) = "detail"

ListValue(items) == [kind |-> "list", items |-> items]
StrValue(text) == [kind |-> "str", text |-> text]
EmptyDict == [k \in {} |-> None]

\* d[key] = value
DictSet(d, key, value) ==
    [k \in DOMAIN d \cup {key} |-> IF k = key THEN value ELSE d[k]]

\* a bug: the weight is normalised like the value and the total
ScoreRow_NormalisesWeight(cols) ==
    [ code   |-> GetTextStrip(cols[2].text),
      name   |-> GetTextStrip(cols[3].text),
      weight |-> ReplaceComma(GetTextStrip(cols[4].text)),
      value  |-> ReplaceComma(GetTextStrip(cols[5].text)),
      total  |-> ReplaceComma(GetTextStrip(cols[6].text)) ]

\* the dict literal built from cols[1..5] (Python indices; cols[0] is row[1])
ScoreRow(cols) ==
    [ code   |-> GetTextStrip(cols[2].text),
      name   |-> GetTextStrip(cols[3].text),
      weight |-> GetTextStrip(cols[4].text),
      value  |-> ReplaceComma(GetTextStrip(cols[5].text)),
      total  |-> ReplaceComma(GetTextStrip(cols[6].text)) ]

SubtotalEntry(row) ==
    [ label |-> GetTextStrip(row[ItalicCell(row)].text),
      value |-> LastThText(row) ]

\* a bug: an entry the caption already has is kept (setdefault)
OpenSection_KeepExisting(secs, caption) ==
    IF caption \in DOMAIN secs THEN secs ELSE DictSet(secs, caption, ListValue(<<>>))

\* current_section = section_text; sections[current_section] = []
OpenSection(secs, caption) == DictSet(secs, caption, ListValue(<<>>))

\* a bug: the new row is put in front
AppendScoreRow_Prepend(secs, cur, cols) ==
    DictSet(secs, cur, ListValue(<<ScoreRow(cols)>> \o secs[cur].items))

\* sections[current_section].append({...})
AppendScoreRow(secs, cur, cols) ==
    DictSet(secs, cur, ListValue(Append(secs[cur].items, ScoreRow(cols))))

\* sections.setdefault(key, []).append({...})
AppendSubtotal(secs, key, row) ==
    LET old == IF key \in DOMAIN secs THEN secs[key].items ELSE <<>>
    IN  DictSet(secs, key, ListValue(Append(old, SubtotalEntry(row))))

PInit ==
    /\ has_table \in BOOLEAN
    /\ rows \in (IF has_table THEN Documents ELSE { <<>> })
    /\ idx = 0
    /\ sections = EmptyDict
    /\ current_section = None
    /\ pstate = "start"
    /\ presult = "pending"

\* lines 12-15: no table with class "table": return None
NoTable ==
    /\ pstate = "start"
    /\ ~has_table
    /\ pstate' = "returned"
    /\ presult' = "None"
    /\ UNCHANGED <<has_table, rows, idx, sections, current_section>>
    /\ UNCHANGED <<svars, bvars>>

\* lines 17-19
EnterLoop ==
    /\ pstate = "start"
    /\ has_table
    /\ pstate' = "loop"
    /\ sections' = EmptyDict
    /\ current_section' = None
    /\ idx' = 0
    /\ UNCHANGED <<has_table, rows, presult>>
    /\ UNCHANGED <<svars, bvars>>

AtRow == pstate = "loop" /\ idx < Len(rows)
Row == rows[idx + 1]

Continue ==
    /\ idx' = idx + 1
    /\ UNCHANGED <<has_table, rows, pstate, presult>>
    /\ UNCHANGED <<svars, bvars>>

Raise(exc) ==
    /\ pstate' = "raised"
    /\ presult' = exc
    /\ UNCHANGED <<has_table, rows, idx, sections, current_section>>
    /\ UNCHANGED <<svars, bvars>>

\* lines 23-29
HeaderRow ==
    /\ AtRow
    /\ TakesHeaderBranch(Row)
    /\ LET section_text == GetTextStrip(Row[HeaderCell(Row)].text)
       IN  IF Contains(section_text, ScoreIn)
           THEN /\ current_section' = section_text
                /\ sections' = OpenSection(sections, section_text)
           ELSE UNCHANGED <<sections, current_section>>
    /\ Continue

\* lines 32-36
TotalAllRow ==
    /\ AtRow
    /\ TakesTotalAllBranch(Row)
    /\ sections' = DictSet(sections, TotalAllScore, StrValue(LastThText(Row)))
    /\ UNCHANGED current_section
    /\ Continue

\* lines 39-48
ItalicRow ==
    /\ AtRow
    /\ TakesItalicBranch(Row)
    /\ IF Contains(GetTextStrip(Row[ItalicCell(Row)].text), TotalScore)
       THEN IF current_section = None
            THEN Raise("TypeError")       \* None + ' (subtotal)'
            ELSE /\ sections' = AppendSubtotal(sections,
                                    current_section \o SubtotalSuffix, Row)
                 /\ UNCHANGED current_section
                 /\ Continue
       ELSE /\ UNCHANGED <<sections, current_section>>
            /\ Continue

\* lines 51-66
DetailRow ==
    /\ AtRow
    /\ TakesDetailBranch(Row)
    /\ IF Len(Row) < 6
       THEN Raise("IndexError")           \* cols[5] of a five-cell row
       ELSE /\ sections' = IF current_section # None
                           THEN AppendScoreRow(sections, current_section, Row)
                           ELSE sections
            /\ UNCHANGED current_section
            /\ Continue

\* a row no branch takes: the loop moves on
OtherRow ==
    /\ AtRow
    /\ Branch(Row) = "none"
    /\ UNCHANGED <<sections, current_section>>
    /\ Continue

\* line 68
ReturnSections ==
    /\ pstate = "loop"
    /\ idx = Len(rows)
    /\ pstate' = "returned"
    /\ presult' = "sections"
    /\ UNCHANGED <<has_table, rows, idx, sections, current_section>>
    /\ UNCHANGED <<svars, bvars>>

PNext ==
    \/ NoTable
    \/ EnterLoop
    \/ HeaderRow
    \/ TotalAllRow
    \/ ItalicRow
    \/ DetailRow
    \/ OtherRow
    \/ ReturnSections

----------------------------------------------------------------------------
(* SintaDataManager: values *)

\* A float is held in thousandths: Num(92) is 0.092, Num(7000) is 7.0
Num(n) == [t |-> "float", n |-> n]
\* a str, as the sequence of its characters
Str(chars) == [t |-> "str", s |-> chars]
NoneV == [t |-> "None"]
\* an int too large for a float (JSON integers are not bounded)
BigInt == [t |-> "int", huge |-> TRUE]

Digits == { "0", "1", "2", "3", "4", "5", "6", "7", "8", "9" }
DigitVal(c) ==
    CASE c = "0" -> 0 [] c = "1" -> 1 [] c = "2" -> 2 [] c = "3" -> 3
      [] c = "4" -> 4 [] c = "5" -> 5 [] c = "6" -> 6 [] c = "7" -> 7
      [] c = "8" -> 8 [] c = "9" -> 9

RECURSIVE DigitsVal(_)
DigitsVal(chars) ==
    IF chars = <<>> THEN 0
    ELSE 10 * DigitsVal(SubSeq(chars, 1, Len(chars) - 1)) + DigitVal(chars[Len(chars)])

\* the literals float(str) reads here: blanks around an optional sign and digits
IsFloatLiteral(chars) ==
    LET body == GetTextStrip(chars)
        digs == IF body # <<>> /\ Head(body) = "-" THEN Tail(body) ELSE body
    IN  digs # <<>> /\ \A i \in 1..Len(digs) : digs[i] \in Digits
LiteralValue(chars) ==
    LET body == GetTextStrip(chars)
    IN  IF Head(body) = "-" THEN 0 - 1000 * DigitsVal(Tail(body))
        ELSE 1000 * DigitsVal(body)

Ok(n) == [ok |-> TRUE, n |-> n, exc |-> "none"]
Err(exc) == [ok |-> FALSE, n |-> 0, exc |-> exc]

\* float(v)
ToFloat(v) ==
    CASE v.t = "float" -> Ok(v.n)
      [] v.t = "str"   -> IF IsFloatLiteral(v.s) THEN Ok(LiteralValue(v.s))
                          ELSE Err("ValueError")
      [] v.t = "None"  -> Err("TypeError")
      [] v.t = "int"   -> Err("OverflowError")

\* `except (ValueError, TypeError):`
Caught(exc) == exc \in { "ValueError", "TypeError" }

\* st.session_state["default_values"], lines 32-58, in thousandths
DefaultMilli ==
    [ AI1 |-> 92, AI2 |-> 76, AI3 |-> 139, AI4 |-> 34, AI5 |-> 34,
      AI6 |-> 151, AI7 |-> 343010, AI8 |-> 349,
      AN1 |-> 21, AN2 |-> 202, AN3 |-> 441, AN4 |-> 2366, AN5 |-> 2294, AN6 |-> 122,
      AN7 |-> 1483, AN8 |-> 13, AN9 |-> 0, AN10 |-> 0,
      DGS1 |-> 22092, DGS2 |-> 2426, DGS3 |-> 9828,
      B1 |-> 202, B2 |-> 622, B3 |-> 25,
      P1 |-> 0, P2 |-> 0, P3 |-> 18000, P4 |-> 7000, P5 |-> 486000, P6 |-> 10000,
      P7 |-> 2523960,
      PM1 |-> 0, PM2 |-> 0, PM3 |-> 6000, PM4 |-> 3000, PM5 |-> 476000, PM6 |-> 13000,
      PM7 |-> 793350,
      KI1 |-> 0, KI2 |-> 0, KI3 |-> 4, KI4 |-> 0, KI5 |-> 0, KI6 |-> 0,
      KI7 |-> 4, KI8 |-> 143, KI9 |-> 6000, KI10 |-> 0,
      R1 |-> 0, R2 |-> 0, R3 |-> 0, DOS1 |-> 4, DOS2 |-> 54, DOS3 |-> 430,
      DOS4 |-> 318, DOS5 |-> 193, REV1 |-> 0,
      APS1 |-> 0, APS2 |-> 833, APS3 |-> 167, APS4 |-> 0,
      JO1 |-> 0, JO2 |-> 0, JO3 |-> 0, JO4 |-> 4000, JO5 |-> 9000, JO6 |-> 1000 ]

DefaultValues == [k \in DOMAIN DefaultMilli |-> Num(DefaultMilli[k])]

\* the keys calls are made with: a code of the table and a key outside it
Keys == { "AI1", "X" }

NotANumber == Str(<<"n", "o", "t", "-", "a", "-", "n", "u", "m", "b", "e", "r">>)

\* the values calls are made with and files hold
Values == { Num(-1000), Str(<<"7">>), NotANumber, BigInt }

\* the mappings a JSON object or a caller's dict may be
Mappings ==
    { EmptyDict,
      [k \in {"X"} |-> Str(<<"7">>)],
      [k \in {"AI1"} |-> NotANumber],
      [k \in Keys |-> IF k = "AI1" THEN BigInt ELSE Num(-1000)] }

\* An element of a JSON array, as dict.update meets it: update iterates the
\* element and takes it as a key/value pair when that gives exactly two
\* items.  items is what iterating gives: of a list its elements, of a string
\* its characters, of an object its keys; a number cannot be iterated.  The
\* first item is written as a key, the others as values.
Elem(form, items) == [form |-> form, items |-> items]
\* the list [k, v]
ListPair(k, v) == Elem("list", <<k, v>>)
\* the two-character string whose characters are k and c
TwoChars(k, c) == Elem("string", <<k, Str(<<c>>)>>)
\* an object with two keys, the first k and the second spelt by chars
TwoKeys(k, chars) == Elem("object", <<k, Str(chars)>>)
\* a number
ANumber == Elem("number", <<>>)

\* whether dict.update takes the element as a pair
IsPair(e) == e.form # "number" /\ Len(e.items) = 2

\* the JSON arrays a file may hold
Arrays ==
    { <<ListPair("X", Str(<<"7">>))>>,
      <<TwoKeys("AI1", NotANumber.s), TwoChars("X", "7")>>,
      <<ANumber, ListPair("AI1", NotANumber)>>,
      <<ListPair("AI1", BigInt), ListPair("AI1", NotANumber), ANumber>> }

\* the JSON strings a file may hold, as character sequences
Strings == { <<>>, <<"a", "b">> }

\* what a file name may lead to: no such file, text json.load rejects, or a
\* JSON document: a number (or true, false, null), a string, an array, an
\* object
Files ==
    { [kind |-> "missing", data |-> EmptyDict],
      [kind |-> "invalid", data |-> EmptyDict],
      [kind |-> "scalar", data |-> EmptyDict] }
      \cup { [kind |-> "string", data |-> c] : c \in Strings }
      \cup { [kind |-> "array", data |-> a] : a \in Arrays }
      \cup { [kind |-> "object", data |-> m] : m \in Mappings }

----------------------------------------------------------------------------
(* SintaDataManager: the heap *)

NoRef == "none"
DefaultsObj == "default_values"      \* st.session_state["default_values"]
\* Two dicts besides the defaults are referenced at any time, the store's
\* and the caller's; a dict nothing refers to any more gives up its identity
ObjectIds == { "o1", "o2" }

\* the identity of a new dict, given the reference that stays
FreshId(other) == CHOOSE o \in ObjectIds : o # other

\* the heap with object o set to mapping m and every unreferenced dict dropped
HeapWith(h, o, m, refs) ==
    [x \in ({DefaultsObj} \cup refs \cup {o}) \ {NoRef} |-> IF x = o THEN m ELSE h[x]]

Store == heap[db]

\* a bug: the loaded data replaces the dict's content
Update_Replaces(d, data) == data

\* dict.update(data)
Update(d, data) ==
    [k \in DOMAIN d \cup DOMAIN data |-> IF k \in DOMAIN data THEN data[k] ELSE d[k]]

\* dict.update(elems), elems a sequence: the elements are taken one by one,
\* each pair is stored as it is reached, and the first element that is not a
\* pair raises with the earlier pairs already stored
RECURSIVE UpdateFromPairs(_, _, _)
UpdateFromPairs(d, elems, i) ==
    IF i > Len(elems) THEN [store |-> d, raised |-> FALSE]
    ELSE IF ~IsPair(elems[i]) THEN [store |-> d, raised |-> TRUE]
    ELSE UpdateFromPairs(DictSet(d, elems[i].items[1], elems[i].items[2]),
                         elems, i + 1)

\* what iterating a JSON string gives dict.update: its characters, each a
\* string of one character
CharsOf(chars) == [i \in 1..Len(chars) |-> Elem("string", <<chars[i]>>)]

\* lines 124-137: what load_from_file leaves in the store and what it returns
LoadResult(store, file) ==
    IF file.kind = "object" THEN [store |-> Update(store, file.data), ok |-> TRUE]
    ELSE IF file.kind \in { "array", "string" }
    THEN LET elems == IF file.kind = "array" THEN file.data ELSE CharsOf(file.data)
             u == UpdateFromPairs(store, elems, 1)
         IN  [store |-> u.store, ok |-> ~u.raised]
    ELSE [store |-> store, ok |-> FALSE]

Returned(v) == [exc |-> "none", value |-> v]
Raised(exc) == [exc |-> exc, value |-> NoneV]
CallOf(op, key, arg, ret) == [op |-> op, key |-> key, arg |-> arg, ret |-> ret]

\* lines 64-70
GetValueResult(store, key, default) ==
    LET r == ToFloat(IF key \in DOMAIN store THEN store[key] ELSE default)
        d == ToFloat(default)
    IN  IF r.ok THEN Returned(Num(r.n))
        ELSE IF Caught(r.exc)
             THEN IF d.ok THEN Returned(Num(d.n)) ELSE Raised(d.exc)
             ELSE Raised(r.exc)

\* lines 75-81: what set_value leaves in the store
SetValueStore(store, key, value) ==
    LET r == ToFloat(value)
    IN  IF r.ok THEN DictSet(store, key, Num(r.n))
        ELSE IF Caught(r.exc) THEN DictSet(store, key, value)
        ELSE store

\* lines 146-163: the issues, or the exception float() lets through
ValidateResult(store, defaults) ==
    LET missing == { f \in DOMAIN defaults : f \notin DOMAIN store }
        uncaught == { k \in DOMAIN store :
                        ~ToFloat(store[k]).ok /\ ~Caught(ToFloat(store[k]).exc) }
        bad == { k \in DOMAIN store :
                   \/ ~ToFloat(store[k]).ok
                   \/ ToFloat(store[k]).n < 0 }
    IN  IF uncaught # {}
        THEN Raised(ToFloat(store[CHOOSE k \in uncaught : TRUE]).exc)
        ELSE Returned([k \in missing \cup bad |->
                 IF k \in missing THEN "Missing field"
                 ELSE IF ~ToFloat(store[k]).ok THEN "Value must be numeric"
                 ELSE "Value must be non-negative"])

\* lines 21-62 on a fresh session state
SInit ==
    /\ db = "o1"
    /\ held = NoRef
    /\ heap = [x \in {DefaultsObj, "o1"} |-> DefaultValues]
    /\ call = CallOf("__init__", "", NoneV, Returned(NoneV))

\* SintaDataManager() once more: lines 21-62 on a session state that has a
\* store and the defaults; an empty store becomes a copy of the defaults
EnsureSessionState ==
    /\ IF Store = EmptyDict
       THEN /\ db' = FreshId(held)
            /\ heap' = HeapWith(heap, FreshId(held), heap[DefaultsObj], {held})
       ELSE UNCHANGED <<heap, db>>
    /\ call' = CallOf("__init__", "", NoneV, Returned(NoneV))
    /\ UNCHANGED held
    /\ UNCHANGED <<pvars, bvars>>

\* get_value(key, default)
GetValue ==
    \E key \in Keys, default \in { Num(0), NoneV, NotANumber } :
        /\ call' = CallOf("get_value", key, default, GetValueResult(Store, key, default))
        /\ UNCHANGED <<heap, db, held>>
        /\ UNCHANGED <<pvars, bvars>>

\* set_value(key, value)
SetValue ==
    \E key \in Keys, value \in Values :
        /\ heap' = [heap EXCEPT ![db] = SetValueStore(Store, key, value)]
        /\ call' = CallOf("set_value", key, value,
                          IF ToFloat(value).ok \/ Caught(ToFloat(value).exc)
                          THEN Returned(NoneV) ELSE Raised(ToFloat(value).exc))
        /\ UNCHANGED <<db, held>>
        /\ UNCHANGED <<pvars, bvars>>

\* a bug: no .copy(), the store becomes the defaults table itself
ResetData_NoCopy ==
    /\ db' = DefaultsObj
    /\ heap' = HeapWith(heap, DefaultsObj, heap[DefaultsObj], {held})
    /\ call' = CallOf("reset_data", "", NoneV, Returned(NoneV))
    /\ UNCHANGED held
    /\ UNCHANGED <<pvars, bvars>>

\* reset_data(): the store becomes a new dict, a copy of the defaults
ResetData ==
    /\ db' = FreshId(held)
    /\ heap' = HeapWith(heap, FreshId(held), heap[DefaultsObj], {held})
    /\ call' = CallOf("reset_data", "", NoneV, Returned(NoneV))
    /\ UNCHANGED held
    /\ UNCHANGED <<pvars, bvars>>

\* load_from_file(filename): lines 124-137
LoadFromFile ==
    \E file \in Files :
        LET r == LoadResult(Store, file)
        IN  /\ heap' = [heap EXCEPT ![db] = r.store]
            /\ call' = CallOf("load_from_file", file.kind, file.data, Returned(r.ok))
            /\ UNCHANGED <<db, held>>
            /\ UNCHANGED <<pvars, bvars>>

\* validate_data()
ValidateData ==
    /\ call' = CallOf("validate_data", "", NoneV, ValidateResult(Store, heap[DefaultsObj]))
    /\ UNCHANGED <<heap, db, held>>
    /\ UNCHANGED <<pvars, bvars>>

\* backup = backup_current_state(): the caller gets a copy of the store
BackupCurrentState ==
    /\ held' = FreshId(db)
    /\ heap' = HeapWith(heap, FreshId(db), Store, {db})
    /\ call' = CallOf("backup_current_state", "", NoneV, Returned(NoneV))
    /\ UNCHANGED db
    /\ UNCHANGED <<pvars, bvars>>

\* the caller builds a dict of its own
CallerMakesDict ==
    \E m \in Mappings :
        /\ held' = FreshId(db)
        /\ heap' = HeapWith(heap, FreshId(db), m, {db})
        /\ call' = CallOf("dict", "", m, Returned(NoneV))
        /\ UNCHANGED db
        /\ UNCHANGED <<pvars, bvars>>

\* a bug: the backup is merged into the store's dict (update)
RestoreFromBackup_Merges ==
    /\ held # NoRef
    /\ heap' = [heap EXCEPT ![db] = [k \in DOMAIN Store \cup DOMAIN heap[held] |->
                    IF k \in DOMAIN heap[held] THEN heap[held][k] ELSE Store[k]]]
    /\ call' = CallOf("restore_from_backup", "", heap[held], Returned(NoneV))
    /\ UNCHANGED <<db, held>>
    /\ UNCHANGED <<pvars, bvars>>

\* restore_from_backup(backup_data): the store becomes the caller's dict itself
RestoreFromBackup ==
    /\ held # NoRef
    /\ db' = held
    /\ heap' = HeapWith(heap, held, heap[held], {held})
    /\ call' = CallOf("restore_from_backup", "", heap[held], Returned(NoneV))
    /\ UNCHANGED held
    /\ UNCHANGED <<pvars, bvars>>

SNext ==
    \/ EnsureSessionState
    \/ GetValue
    \/ SetValue
    \/ ResetData
    \/ LoadFromFile
    \/ ValidateData
    \/ BackupCurrentState
    \/ CallerMakesDict
    \/ RestoreFromBackup

----------------------------------------------------------------------------
(* The batch loops *)

\* what a call produced: the value it returned, or the exception that left it
Outcome(exc, value) == [exc |-> exc, value |-> value]

\* the loop of parse_metrics_page from row i on, as the caller sees it
RECURSIVE ParseRows(_, _, _, _)
ParseRows(rs, i, secs, cur) ==
    IF i > Len(rs) THEN Outcome("none", secs)
    ELSE LET row == rs[i]
             branch == Branch(row)
         IN  IF branch = "header"
             THEN LET section_text == GetTextStrip(row[HeaderCell(row)].text)
                  IN  IF Contains(section_text, ScoreIn)
                      THEN ParseRows(rs, i + 1, OpenSection(secs, section_text),
                                     section_text)
                      ELSE ParseRows(rs, i + 1, secs, cur)
             ELSE IF branch = "total_all"
             THEN ParseRows(rs, i + 1,
                      DictSet(secs, TotalAllScore, StrValue(LastThText(row))), cur)
             ELSE IF branch = "italic"
             THEN IF Contains(GetTextStrip(row[ItalicCell(row)].text), TotalScore)
                  THEN IF cur = None
                       THEN Outcome("TypeError", None)
                       ELSE ParseRows(rs, i + 1,
                                AppendSubtotal(secs, cur \o SubtotalSuffix, row), cur)
                  ELSE ParseRows(rs, i + 1, secs, cur)
             ELSE IF branch = "detail"
             THEN IF Len(row) < 6
                  THEN Outcome("IndexError", None)
                  ELSE ParseRows(rs, i + 1,
                           IF cur # None THEN AppendScoreRow(secs, cur, row)
                                         ELSE secs,
                           cur)
             ELSE ParseRows(rs, i + 1, secs, cur)

\* parse_metrics_page(html_content), html_content a page
ParseMetricsPage(page) ==
    IF ~page.has_table THEN Outcome("none", None)
    ELSE ParseRows(page.rows, 1, EmptyDict, None)

\* a page: whether it has the table, and the table's rows
Page(has, rs) == [has_table |-> has, rows |-> rs]
NoTablePage == Page(FALSE, <<>>)
EmptyTablePage == Page(TRUE, <<>>)
GoodPage == Page(TRUE, <<HdrA, Detail1>>)
SubtotalFirstPage == Page(TRUE, <<SubRow, HdrA>>)     \* the parse raises TypeError
FiveCellPage == Page(TRUE, <<HdrA, Detail5>>)         \* the parse raises IndexError

\* what requests.get does: it raises, or it returns a response
GetRaises(exc) ==
    [kind |-> "raise", exc |-> exc, status_code |-> 0, text |-> NoTablePage]
Response(status, page) ==
    [kind |-> "response", exc |-> "none", status_code |-> status, text |-> page]

Responses ==
    { GetRaises("ConnectionError"),
      Response(404, NoTablePage),
      Response(200, NoTablePage),
      Response(200, EmptyTablePage),
      Response(200, GoodPage),
      Response(200, SubtotalFirstPage),
      Response(200, FiveCellPage) }

\* a row of the input CSV
CsvRow(kode_pt, nama, klaster, sinta_id) ==
    [kode_pt |-> kode_pt, nama |-> nama, klaster |-> klaster, sinta_id |-> sinta_id]
InstA == CsvRow("001001", "Universitas A", "Mandiri", 11)
InstB == CsvRow("002002", "Institut B", "Utama", 22)

\* every input of at most MaxInst rows; an institution may be listed twice
Inputs == UNION { [1..n -> {InstA, InstB}] : n \in 0..MaxInst }

\* the dict of one institution
ResultDict(kode_pt, nama, klaster, sinta_id, metrics) ==
    [kode_pt |-> kode_pt, nama |-> nama, klaster |-> klaster,
     sinta_id |-> sinta_id, metrics |-> metrics]

\* the try block of scrape_institution_data
ScrapeTry(sinta_id, nama, klaster, kode_pt, resp) ==
    IF resp.kind = "raise" THEN Outcome(resp.exc, None)
    ELSE IF resp.status_code # 200 THEN Outcome("none", None)
    ELSE LET metrics == ParseMetricsPage(resp.text)
         IN  IF metrics.exc # "none" THEN Outcome(metrics.exc, None)
             ELSE IF metrics.value = None THEN Outcome("none", None)
             ELSE Outcome("none",
                      ResultDict(kode_pt, nama, klaster, sinta_id, metrics.value))

\* a bug: no except clause, an exception leaves the function
ScrapeInstitutionData_NoExcept(sinta_id, nama, klaster, kode_pt, resp) ==
    ScrapeTry(sinta_id, nama, klaster, kode_pt, resp)

\* scrape_institution_data: `except Exception` returns None
ScrapeInstitutionData(sinta_id, nama, klaster, kode_pt, resp) ==
    LET r == ScrapeTry(sinta_id, nama, klaster, kode_pt, resp)
    IN  IF r.exc # "none" THEN Outcome("none", None) ELSE r

\* `if result:`: None is false, a dict of five keys is true
Truthy(result) == result # None

\* the try block of the loop body of new_scraping.py, given the results so far
NewScrapingTry(res, row, resp) ==
    IF resp.kind = "raise" THEN Outcome(resp.exc, res)
    ELSE IF resp.status_code # 200 THEN Outcome("none", res)
    ELSE LET metrics == ParseMetricsPage(resp.text)
         IN  IF metrics.exc # "none" THEN Outcome(metrics.exc, res)
             ELSE IF metrics.value = None THEN Outcome("none", res)
             ELSE Outcome("none",
                      Append(res, ResultDict(row.kode_pt, row.nama, row.klaster,
                                             row.sinta_id, metrics.value)))

\* the loop body of new_scraping.py: `except Exception` continues
NewScrapingBody(res, row, resp) ==
    LET r == NewScrapingTry(res, row, resp)
    IN  Outcome("none", r.value)

Requested(sinta_id, resp) == [sinta_id |-> sinta_id, got |-> resp]

\* json.dump(results, f): the output file holds the list
Written(list) == [written |-> TRUE, data |-> list]
NotWritten == [written |-> FALSE, data |-> <<>>]

BInit ==
    /\ program \in { "perform_scraping", "new_scraping" }
    /\ df \in Inputs
    /\ processed_count = 0
    /\ results = <<>>
    /\ http = <<>>
    /\ bstate = "loop"
    /\ output = NotWritten

AtInstitution == bstate = "loop" /\ processed_count < Len(df)
Institution == df[processed_count + 1]

\* scraping_module.py lines 109-126: one pass of the loop of perform_scraping
PerformScrapingStep ==
    /\ program = "perform_scraping"
    /\ AtInstitution
    /\ \E resp \in Responses :
        LET r == ScrapeInstitutionData(Institution.sinta_id, Institution.nama,
                     Institution.klaster, Institution.kode_pt, resp)
        IN  /\ http' = Append(http, Requested(Institution.sinta_id, resp))
            /\ IF r.exc # "none"
               THEN /\ bstate' = "raised"
                    /\ UNCHANGED <<results, processed_count>>
               ELSE /\ results' = IF Truthy(r.value) THEN Append(results, r.value)
                                                    ELSE results
                    /\ processed_count' = processed_count + 1
                    /\ UNCHANGED bstate
    /\ UNCHANGED <<program, df, output>>
    /\ UNCHANGED <<pvars, svars>>

\* scraping_module.py lines 128-138: the results are written and returned
PerformScrapingReturn ==
    /\ program = "perform_scraping"
    /\ bstate = "loop"
    /\ processed_count = Len(df)
    /\ output' = Written(results)
    /\ bstate' = "done"
    /\ UNCHANGED <<program, df, processed_count, results, http>>
    /\ UNCHANGED <<pvars, svars>>

\* new_scraping.py lines 80-111: one pass of the top-level loop
NewScrapingStep ==
    /\ program = "new_scraping"
    /\ AtInstitution
    /\ \E resp \in Responses :
        LET r == NewScrapingBody(results, Institution, resp)
        IN  /\ http' = Append(http, Requested(Institution.sinta_id, resp))
            /\ IF r.exc # "none"
               THEN /\ bstate' = "raised"
                    /\ UNCHANGED <<results, processed_count>>
               ELSE /\ results' = r.value
                    /\ processed_count' = processed_count + 1
                    /\ UNCHANGED bstate
    /\ UNCHANGED <<program, df, output>>
    /\ UNCHANGED <<pvars, svars>>

\* new_scraping.py lines 113-117: the results are written
NewScrapingSave ==
    /\ program = "new_scraping"
    /\ bstate = "loop"
    /\ processed_count = Len(df)
    /\ output' = Written(results)
    /\ bstate' = "done"
    /\ UNCHANGED <<program, df, processed_count, results, http>>
    /\ UNCHANGED <<pvars, svars>>

BNext ==
    \/ PerformScrapingStep
    \/ PerformScrapingReturn
    \/ NewScrapingStep
    \/ NewScrapingSave

----------------------------------------------------------------------------
(* Specifications *)

\* no batch loop runs
BAbsent ==
    /\ program = "none"
    /\ df = <<>>
    /\ processed_count = 0
    /\ results = <<>>
    /\ http = <<>>
    /\ bstate = "loop"
    /\ output = NotWritten

\* the scraper does not import the data manager: none is constructed
SAbsent ==
    /\ heap = EmptyDict
    /\ db = NoRef
    /\ held = NoRef
    /\ call = CallOf("none", "", NoneV, Returned(NoneV))

\* the parser
Init == PInit /\ SAbsent /\ BAbsent

Next == PNext

Spec == Init /\ [][Next]_vars

\* the data manager, with no parse under way
PIdle ==
    /\ has_table = FALSE
    /\ rows = <<>>
    /\ idx = 0
    /\ sections = EmptyDict
    /\ current_section = None
    /\ pstate = "start"
    /\ presult = "pending"

StoreInit == PIdle /\ SInit /\ BAbsent

StoreNext == SNext

StoreSpec == StoreInit /\ [][StoreNext]_vars

\* a batch loop; the parser's variables and the data manager are idle.  Each
\* pass of a for loop ends (requests.get is called with a timeout), so a loop
\* that can take a step does take one
BatchInit == PIdle /\ SAbsent /\ BInit

BatchNext == BNext

BatchSpec == BatchInit /\ [][BatchNext]_vars /\ WF_vars(BatchNext)

----------------------------------------------------------------------------
(* What the document says, read off the rows the loop has completed *)

\* row j opens a section: a header row whose caption contains "Score in"
Opens(j) ==
    /\ TakesHeaderBranch(rows[j])
    /\ Contains(GetTextStrip(rows[j][HeaderCell(rows[j])].text), ScoreIn)
CaptionOf(j) == GetTextStrip(rows[j][HeaderCell(rows[j])].text)

\* row j is a detail row the loop extracts (six cells or more)
Extracted(j) == TakesDetailBranch(rows[j]) /\ Len(rows[j]) >= 6

\* the last opening header among rows 1..n, 0 when there is none
LastOpening(n) ==
    LET hs == { j \in 1..n : Opens(j) } IN IF hs = {} THEN 0 ELSE Max(hs)

\* the first opening header among rows j+1..n, n+1 when there is none
NextOpening(j, n) ==
    LET hs == { k \in (j + 1)..n : Opens(k) } IN IF hs = {} THEN n + 1 ELSE Min(hs)

\* the score rows of the extracted rows among rows lo..hi, in document order
RECURSIVE DetailsBetween(_, _)
DetailsBetween(lo, hi) ==
    IF lo > hi THEN <<>>
    ELSE IF Extracted(lo)
         THEN <<ScoreRow(rows[lo])>> \o DetailsBetween(lo + 1, hi)
         ELSE DetailsBetween(lo + 1, hi)

IsScoreItem(item) == "code" \in DOMAIN item
ScoreItems(value) == SelectSeq(value.items, IsScoreItem)
ListKeys == { k \in DOMAIN sections : sections[k].kind = "list" }

----------------------------------------------------------------------------
\* C1: at every point of the loop the current section is the caption of the
\* most recent section header among the rows done so far (subtotal and
\* grand-total rows leave it alone), the sequence stored under it is exactly
\* the detail rows below that header, in document order, and while no header
\* has been seen no detail row is stored anywhere.
C1_SectionAttribution ==
    LET h == LastOpening(idx)
    IN  /\ current_section = (IF h = 0 THEN None ELSE CaptionOf(h))
        /\ h # 0 =>
             /\ current_section \in DOMAIN sections
             /\ sections[current_section] = ListValue(DetailsBetween(h + 1, idx))
        /\ h = 0 => \A k \in ListKeys : ScoreItems(sections[k]) = <<>>

\* a returned parse of: header, subtotal row, detail row
C1_Witness ==
    /\ pstate = "returned"
    /\ rows = <<HdrA, SubRow, Detail1>>
    /\ current_section = CapA
    /\ sections[CapA] = ListValue(<<ScoreRow(Detail1)>>)

----------------------------------------------------------------------------
\* the score rows of the extracted rows among rows lo..hi whose governing
\* header carries caption k, in document order
RECURSIVE DetailsUnderCaption(_, _, _)
DetailsUnderCaption(k, lo, hi) ==
    IF lo > hi THEN <<>>
    ELSE IF /\ Extracted(lo)
            /\ LastOpening(lo) # 0
            /\ CaptionOf(LastOpening(lo)) = k
         THEN <<ScoreRow(rows[lo])>> \o DetailsUnderCaption(k, lo + 1, hi)
         ELSE DetailsUnderCaption(k, lo + 1, hi)

\* the headers among rows 1..n that open caption k
OpeningsOf(k, n) == { j \in 1..n : Opens(j) /\ CaptionOf(j) = k }
RepeatedCaptions(n) ==
    { CaptionOf(j) : j \in { i \in 1..n : Opens(i) /\ Cardinality(OpeningsOf(CaptionOf(i), n)) >= 2 } }

\* C2 as stated: when a caption is opened twice, its single entry holds the
\* detail rows under the first header followed by those under the second.
C2_RepeatedCaptionKeepsRows ==
    \A k \in RepeatedCaptions(idx) :
        /\ k \in DOMAIN sections
        /\ ScoreItems(sections[k]) = DetailsUnderCaption(k, 1, idx)

\* C2 amended: when a caption is opened twice there is a single entry for
\* it, and that entry holds only the detail rows below the last header with
\* that caption (up to the next section header): the second header empties
\* the sequence, so the rows under the first header are discarded.
C2_RepeatedCaptionRestarts ==
    \A k \in RepeatedCaptions(idx) :
        LET j == Max(OpeningsOf(k, idx))
        IN  /\ k \in DOMAIN sections
            /\ sections[k].kind = "list"
            /\ ScoreItems(sections[k]) = DetailsBetween(j + 1, NextOpening(j, idx) - 1)

\* a returned parse of: header, detail row, the same header again
C2_Witness ==
    /\ pstate = "returned"
    /\ rows = <<HdrA, Detail1, HdrA>>
    /\ sections[CapA] = ListValue(<<>>)

----------------------------------------------------------------------------
\* a subtotal row: the italic branch with "Total Score" in the cell
IsSubtotalRow(row) ==
    /\ TakesItalicBranch(row)
    /\ Contains(GetTextStrip(row[ItalicCell(row)].text), TotalScore)

\* C3 as stated: a subtotal row met while no section header has been seen
\* does not stop the parse, and once the loop is past it the result holds
\* its SubtotalEntry under the key " (subtotal)" with nothing in front.
C3_SubtotalBeforeHeaderIsStored ==
    \A j \in 1..Len(rows) :
        (IsSubtotalRow(rows[j]) /\ LastOpening(j - 1) = 0) =>
            /\ ~(pstate = "raised" /\ idx = j - 1)
            /\ idx >= j =>
                 /\ SubtotalSuffix \in DOMAIN sections
                 /\ \E p \in 1..Len(sections[SubtotalSuffix].items) :
                        sections[SubtotalSuffix].items[p] = SubtotalEntry(rows[j])

----------------------------------------------------------------------------
\* C4 as stated: a row with five or more cells whose first cell has the
\* left-border style, and which no earlier category took, never makes the
\* parse fail.
C4_DetailRowNeverFails ==
    \A j \in 1..Len(rows) :
        TakesDetailBranch(rows[j]) => ~(pstate = "raised" /\ idx = j - 1)

----------------------------------------------------------------------------
\* the categories as C5 words them: a category matches only if all of its
\* conditions hold
C5_IsSectionHeader(row) ==
    \E i \in 1..Len(row) :
        /\ row[i].tag = "th" /\ row[i].colspan /\ BorderLeft \in row[i].style
        /\ ~Contains(row[i].text, Total)
        /\ Contains(row[i].text, ScoreIn)
C5_IsGrandTotal(row) ==
    \E i \in 1..Len(row) :
        /\ row[i].tag = "th" /\ Accent \in row[i].style
        /\ Contains(row[i].text, TotalAllScore)
C5_IsSubtotal(row) ==
    \E i \in 1..Len(row) :
        /\ row[i].tag = "th" /\ Italic \in row[i].style
        /\ Contains(row[i].text, TotalScore)
\* six cells, so that the row's five fields all exist
C5_IsDetail(row) == Len(row) >= 6 /\ BorderLeft \in row[1].style

\* the row's first multi-column left-border heading has neither "Total" nor
\* "Score in" in it
C5_HeadingLacksScoreIn(row) ==
    /\ HeaderCell(row) # 0
    /\ ~Contains(row[HeaderCell(row)].text, Total)
    /\ ~Contains(row[HeaderCell(row)].text, ScoreIn)
\* the row has no multi-column left-border heading free of "Total"
C5_NoHeading(row) ==
    HeaderCell(row) = 0 \/ Contains(row[HeaderCell(row)].text, Total)
\* past the header and grand-total tests, the row's first italic heading has
\* no "Total Score" in it
C5_ItalicLacksTotalScore(row) ==
    /\ C5_NoHeading(row)
    /\ ~C5_IsGrandTotal(row)
    /\ ItalicCell(row) # 0
    /\ ~Contains(row[ItalicCell(row)].text, TotalScore)
\* the row's accent heading has no "TOTAL ALL SCORE" in it and the row has no
\* italic heading
C5_AccentLacksTotalAll(row) ==
    /\ C5_NoHeading(row)
    /\ TotalAllCell(row) # 0
    /\ ~Contains(row[TotalAllCell(row)].text, TotalAllScore)
    /\ ItalicCell(row) = 0

\* C5 as stated: a row that is no section header, grand total or subtotal
\* (each taken with all its conditions) and meets the detail-row conditions
\* is extracted as a detail row of the open section.
C5_PartialMatchFallsThrough ==
    [][ ( /\ AtRow
          /\ current_section # None
          /\ C5_IsDetail(Row)
          /\ ~C5_IsSectionHeader(Row)
          /\ ~C5_IsGrandTotal(Row)
          /\ ~C5_IsSubtotal(Row) )
        => sections' = AppendScoreRow(sections, current_section, Row) ]_vars

\* C5 amended: rows are classified by first match in priority order, but the
\* section-header and subtotal tests consume a row on the heading cell's
\* style alone. A row whose first multi-column left-border heading lacks
\* "Total" is consumed by the header test even when it lacks "Score in", and
\* a row with an italic heading that reaches the subtotal test is consumed
\* by it even when it lacks "Total Score": nothing is extracted from such a
\* row and it is not tested against the later categories, whether or not it
\* meets the detail-row conditions. Only the grand-total test lets a row
\* through when its text condition fails: such a row is extracted as a
\* detail row when it meets the detail-row conditions with six cells.
C5_StyleAloneConsumesRow ==
    [][ AtRow =>
        /\ (C5_HeadingLacksScoreIn(Row) \/ C5_ItalicLacksTotalScore(Row)) =>
              /\ UNCHANGED <<sections, current_section>>
              /\ idx' = idx + 1
              /\ pstate' = "loop"
        /\ (C5_AccentLacksTotalAll(Row) /\ C5_IsDetail(Row) /\ current_section # None) =>
              /\ sections'[current_section] =
                     ListValue(Append(sections[current_section].items, ScoreRow(Row)))
              /\ idx' = idx + 1
      ]_vars

\* a returned parse of: header, a heading row without "Score in" that has
\* the shape of a detail row, an accent row that has it too
C5_Witness ==
    /\ pstate = "returned"
    /\ rows = <<HdrA, HdrOther, AccentOther>>
    /\ sections[CapA] = ListValue(<<ScoreRow(AccentOther)>>)

----------------------------------------------------------------------------
\* every "," of the text turned into "."
C6_CommasToDots(text) ==
    [i \in 1..Len(text) |-> IF text[i] = "," THEN "." ELSE text[i]]
C6_Last(seq) == seq[Len(seq)]

\* C6: a detail row stored under the open section has its value and total
\* with every comma turned into a period and its code, name and weight as
\* the cell text; a stored SubtotalEntry's value and the TOTAL ALL SCORE
\* entry are the text of the row's last heading cell, commas kept.
C6_OnlyValueAndTotalNormalised ==
    [][ AtRow =>
        /\ (Extracted(idx + 1) /\ current_section # None) =>
              LET item == C6_Last(sections'[current_section].items)
              IN  /\ item.code = GetTextStrip(Row[2].text)
                  /\ item.name = GetTextStrip(Row[3].text)
                  /\ item.weight = GetTextStrip(Row[4].text)
                  /\ item.value = C6_CommasToDots(GetTextStrip(Row[5].text))
                  /\ item.total = C6_CommasToDots(GetTextStrip(Row[6].text))
        /\ (IsSubtotalRow(Row) /\ current_section # None) =>
              C6_Last(sections'[current_section \o SubtotalSuffix].items).value
                  = LastThText(Row)
        /\ TakesTotalAllBranch(Row) =>
              sections'[TotalAllScore] = StrValue(LastThText(Row))
      ]_vars

\* a returned parse of: header, detail row, grand-total row
C6_Witness ==
    /\ pstate = "returned"
    /\ rows = <<HdrA, Detail1, GrandRow>>
    /\ sections[TotalAllScore] = StrValue(<<"543", ",", "21">>)
    /\ sections[CapA].items[1].value = <<"1", ".", "234">>
    /\ sections[CapA].items[1].total = <<"0", ".", "617">>
    /\ sections[CapA].items[1].weight = <<"0", ",", "5">>

----------------------------------------------------------------------------
\* C7 as stated: get_value never raises, whatever is stored and whatever the
\* default; it returns the stored value as a float when float() takes it and
\* the default otherwise.
C7_GetValueNeverRaises ==
    call.op = "get_value" =>
        /\ call.ret.exc = "none"
        /\ (call.key \in DOMAIN Store /\ ToFloat(Store[call.key]).ok) =>
              call.ret.value = Num(ToFloat(Store[call.key]).n)
        /\ (call.key \in DOMAIN Store /\ ~ToFloat(Store[call.key]).ok) =>
              call.ret.value = call.arg

----------------------------------------------------------------------------
\* C8: the defaults table is never altered; right after reset_data the store
\* equals it; and validate_data called right after reset_data returns an
\* empty mapping.
C8_ResetThenValidateIsClean ==
    /\ [](heap[DefaultsObj] = DefaultValues)
    /\ [](call.op = "reset_data" => Store = DefaultValues)
    /\ [][ (call.op = "reset_data" /\ call'.op = "validate_data")
           => call'.ret = Returned(EmptyDict) ]_vars

\* validate_data has returned no issue while the caller still holds a backup
\* taken when the store had a non-numeric value under a key of its own
C8_Witness ==
    /\ call.op = "validate_data"
    /\ call.ret = Returned(EmptyDict)
    /\ Store = DefaultValues
    /\ held \notin { NoRef, db }
    /\ heap[held] = DictSet(DefaultValues, "X", NotANumber)

----------------------------------------------------------------------------
\* after is before merged with data: data's keys with data's values, the
\* other keys of before with their values, and nothing else
C9_IsMerge(before, data, after) ==
    /\ DOMAIN after = DOMAIN before \cup DOMAIN data
    /\ \A k \in DOMAIN data : after[k] = data[k]
    /\ \A k \in DOMAIN before \ DOMAIN data : after[k] = before[k]

\* C9 as stated: after restore_from_backup(data) every key the store had and
\* data lacks is still there with its value, and every key of data is there
\* with data's value.
C9_RestoreMerges ==
    [][ call'.op = "restore_from_backup" =>
          /\ \A k \in DOMAIN Store \ DOMAIN call'.arg :
                 k \in DOMAIN heap'[db'] /\ heap'[db'][k] = Store[k]
          /\ \A k \in DOMAIN call'.arg :
                 k \in DOMAIN heap'[db'] /\ heap'[db'][k] = call'.arg[k]
      ]_vars

\* iterating the element gives exactly two items
C9_TakenAsPair(e) == e.form \in { "list", "string", "object" } /\ Len(e.items) = 2

\* the number of elements of a JSON array before the first that update
\* does not take as a pair
C9_LeadingPairs(elems) ==
    CHOOSE n \in 0..Len(elems) :
        /\ \A i \in 1..n : C9_TakenAsPair(elems[i])
        /\ n = Len(elems) \/ ~C9_TakenAsPair(elems[n + 1])

\* the mapping the first n elements of a JSON array give: for each key the
\* value of the last pair that has it
C9_PairsAsDict(elems, n) ==
    [k \in { elems[i].items[1] : i \in 1..n } |->
        elems[CHOOSE i \in 1..n :
                 /\ elems[i].items[1] = k
                 /\ \A j \in 1..n : elems[j].items[1] = k => j <= i].items[2]]

\* what a load has to merge into the store: a JSON object whole, of a JSON
\* array the pairs before the first element that is not one, of anything
\* else nothing
C9_Loaded(kind, data) ==
    IF kind = "object" THEN data
    ELSE IF kind = "array" THEN C9_PairsAsDict(data, C9_LeadingPairs(data))
    ELSE EmptyDict

\* C9 amended: restore_from_backup(data) is a full replace: afterwards the
\* store is data, with data's keys and values and no other key.  The merge
\* is load_from_file's: after the load of a JSON object, which returns True,
\* the store has the object's keys with the object's values and its other
\* keys with their previous values.  Of a JSON array the elements that
\* dict.update takes as pairs, up to the first it rejects, are merged in the
\* same way, and stay merged when a later element is rejected and the load
\* returns False.  No load removes a key of the store; a load of a missing
\* file, of text that is not JSON, or of a JSON number, true, false or null
\* leaves the store as it is and returns False; a load of a JSON string
\* leaves the store as it is too.
C9_RestoreReplacesLoadMerges ==
    [][ /\ call'.op = "restore_from_backup" =>
              /\ call'.arg = heap[held]
              /\ heap'[db'] = call'.arg
        /\ call'.op = "load_from_file" =>
              /\ C9_IsMerge(Store, C9_Loaded(call'.key, call'.arg), heap'[db'])
              /\ call'.key = "object" => call'.ret = Returned(TRUE)
              /\ (call'.key = "array"
                     /\ C9_LeadingPairs(call'.arg) < Len(call'.arg))
                    => call'.ret = Returned(FALSE)
              /\ call'.key \in { "missing", "invalid", "scalar" }
                    => (heap'[db'] = Store /\ call'.ret = Returned(FALSE))
      ]_vars

\* an empty dict has been restored, and a load of an array with a non-pair
\* after a pair has then returned False with the pair in the store
C9_Witness ==
    /\ call.op = "load_from_file"
    /\ call.key = "array"
    /\ Len(call.arg) = 3
    /\ call.ret = Returned(FALSE)
    /\ Store = [k \in {"AI1"} |-> NotANumber]
    /\ held = db

----------------------------------------------------------------------------
AllCodesPresent(store) == \A k \in DOMAIN DefaultValues : k \in DOMAIN store

\* C10 as stated: in every state after construction every code of the
\* defaults table is a key of the store.
C10_EveryCodeAlwaysPresent == AllCodesPresent(Store)

\* C10 amended: right after the first construction and after every
\* reset_data every code of the defaults table is a key of the store, and
\* set_value, load_from_file and a further construction (like the calls that
\* only read) keep it so; but restore_from_backup(b) makes b the store, so
\* afterwards the codes are all present only if b holds them all.  A further
\* construction brings the codes back only when the store is empty: it then
\* makes the store a copy of the defaults, and otherwise leaves it as it is.
C10_CodesKeptExceptByRestore ==
    /\ AllCodesPresent(Store)
    /\ [](call.op = "reset_data" => AllCodesPresent(Store))
    /\ [][ (call'.op # "restore_from_backup" /\ AllCodesPresent(Store))
           => AllCodesPresent(heap'[db']) ]_vars
    /\ [][ call'.op = "__init__"
           => heap'[db'] = IF Store = EmptyDict THEN DefaultValues ELSE Store ]_vars
    /\ [][ call'.op = "restore_from_backup"
           => (AllCodesPresent(heap'[db']) <=> AllCodesPresent(call'.arg)) ]_vars

\* a one-key dict has been restored: the store has that key and no other
C10_Witness ==
    /\ call.op = "restore_from_backup"
    /\ call.arg = [k \in {"AI1"} |-> NotANumber]
    /\ DOMAIN Store = {"AI1"}

----------------------------------------------------------------------------
(* The batch loops and the parser *)

\* ParseMetricsPage gives what the parser's loop ends with, on every document
ParseAgrees ==
    LET r == ParseMetricsPage(Page(has_table, rows))
    IN  /\ pstate = "raised" => r.exc = presult
        /\ pstate = "returned" /\ presult = "None" => r = Outcome("none", None)
        /\ pstate = "returned" /\ presult = "sections"
               => r = Outcome("none", sections)

\* the request got a page and the page's metrics were extracted
C11_Succeeded(resp) ==
    /\ resp.kind = "response"
    /\ resp.status_code = 200
    /\ resp.text.has_table
    /\ ParseMetricsPage(resp.text).exc = "none"

\* the dicts of the institutions among the first k of df whose request
\* succeeded, in input order
RECURSIVE C11_Expected(_)
C11_Expected(k) ==
    IF k = 0 THEN <<>>
    ELSE IF C11_Succeeded(http[k].got)
         THEN Append(C11_Expected(k - 1),
                  ResultDict(df[k].kode_pt, df[k].nama, df[k].klaster,
                             df[k].sinta_id, ParseMetricsPage(http[k].got.text).value))
         ELSE C11_Expected(k - 1)

C11_InOrderAndOnlyTheGood ==
    /\ bstate # "raised"
    /\ Len(http) = processed_count
    /\ processed_count <= Len(df)
    /\ \A j \in 1..Len(http) : http[j].sinta_id = df[j].sinta_id
    /\ results = C11_Expected(Len(http))
    /\ bstate = "done" => (processed_count = Len(df) /\ output = Written(results))

\* C11: in both batch loops the requests made are, at every point, those of
\* the first institutions of the input, one each and in input order, whatever
\* the earlier ones got (an exception from requests.get, a status other than
\* 200, a page without the table, a page on which the parse raises); the
\* results list holds the dicts of exactly those whose page was extracted, in
\* input order; no outcome ends the loop early, and the loop gets to the end
\* of the input and writes that list.
C11_EveryInstitutionAttemptedOnce ==
    /\ []C11_InOrderAndOnlyTheGood
    /\ <>(bstate = "done")

\* perform_scraping done on three institutions: the first page is extracted,
\* the parse of the second raises, the third is extracted
C11_Witness ==
    /\ program = "perform_scraping"
    /\ bstate = "done"
    /\ df = <<InstA, InstB, InstA>>
    /\ http[1].got = Response(200, GoodPage)
    /\ http[2].got = Response(200, SubtotalFirstPage)
    /\ http[3].got = Response(200, EmptyTablePage)
    /\ Len(output.data) = 2
    /\ output.data[2].metrics = EmptyDict

----------------------------------------------------------------------------
\* C12 as stated: a mapping the caller holds, one that backup_current_state
\* returned or one that the caller passed or will pass to restore_from_backup,
\* is the same mapping after every set_value and every load_from_file call as
\* it was before the call.
C12_SnapshotIndependentOfStore ==
    [][ (held # NoRef /\ call'.op \in { "set_value", "load_from_file" })
           => (held' = held /\ heap'[held'] = heap[held]) ]_vars

====
